---- MODULE Spec2Model ----
(***************************************************************************)
(* Model of packages/rigour-core/src/gates/ast-handlers/python_parser.py:  *)
(* analyze_code parses one source text, walks the tree with the            *)
(* MetricsVisitor, walks it again with the SecurityVisitor, scans the raw  *)
(* lines for SQL patterns and returns either {metrics, security} or        *)
(* {error}.                                                                *)
(*                                                                         *)
(* ast.parse is a library: its outcome (a tree, or an exception with its   *)
(* message) is part of the input.  A tree is a sequence of nodes in        *)
(* pre-order, node 1 being the Module; node attributes that the visitors   *)
(* only inspect (assignment targets, constant values, callee, keywords,    *)
(* parameter lists) are fields of the node.  The recursion of              *)
(* NodeVisitor.visit / generic_visit is an explicit stack of node ids.     *)
(***************************************************************************)
EXTENDS Integers, Sequences, FiniteSets, TLC

(* ------------------------------ bounds -------------------------------- *)
\* nodes below the Module in the trees built from NarrowKinds
MaxNodes == 3
\* nodes below the Module in the trees built from every node kind
MaxWideNodes == 2
\* Python's recursion limit (sys.getrecursionlimit(), 1000 frames), scaled
RecursionLimit == 10
\* longest positional / positional-only / keyword-only parameter list
MaxParams == 2
\* most targets of one (chained) assignment
MaxTargets == 2
\* most keyword arguments of one call
MaxKeywords == 2
\* most lines of a source text of the line family
MaxLines == 2

(* --------------------------- sequence helpers -------------------------- *)
Range(s) == {s[i] : i \in 1..Len(s)}

IsPrefix(s, t) == Len(s) <= Len(t) /\ SubSeq(t, 1, Len(s)) = s

\* the members of a finite set of integers, in increasing order
RECURSIVE Ascending(_)
Ascending(S) ==
  IF S = {} THEN <<>>
  ELSE LET m == CHOOSE x \in S : \A y \in S : x <= y
       IN <<m>> \o Ascending(S \ {m})

SeqsUpTo(S, n) == UNION {[1..k -> S] : k \in 0..n}

(* ------------------------------ node kinds ----------------------------- *)
\* statements that hold a body of statements
BlockKinds == {"Module", "FunctionDef", "AsyncFunctionDef", "ClassDef", "If",
               "While", "For", "AsyncFor", "Try", "TryStar", "ExceptHandler",
               "With", "AsyncWith"}
\* statements and handlers: they occur only in a body
StmtKinds == (BlockKinds \ {"Module"}) \cup {"Assign", "Expr"}
\* expressions: they occur below any node
ExprKinds == {"BoolOp", "IfExp", "Call", "Lambda"}

NoArgs == [posonlyargs |-> <<>>, args |-> <<>>, kwonlyargs |-> <<>>,
           vararg |-> <<>>, kwarg |-> <<>>]
\* a leaf value of an assignment or of a keyword: node is the ast class;
\* for a Constant, type is the Python type of .value and num its number
StrConst == [node |-> "Constant", type |-> "str", num |-> 0]
NameFunc(id) == [node |-> "Name", id |-> id, vnode |-> "", vid |-> ""]
AttrFunc(vnode, vid, attr) ==
  [node |-> "Attribute", id |-> attr, vnode |-> vnode, vid |-> vid]
OtherFunc == [node |-> "Other", id |-> "", vnode |-> "", vid |-> ""]

\* a node with plain attributes: def f(): ..., class K: ..., a or b,
\* print(...), and d[...] = "..." for an assignment
Blank(kind) ==
  [kind |-> kind, parent |-> 0, depth |-> 0, lineno |-> 0,
   name |-> IF kind \in {"FunctionDef", "AsyncFunctionDef"} THEN "f"
            ELSE IF kind = "ClassDef" THEN "K" ELSE "",
   args |-> NoArgs,
   nvalues |-> IF kind = "BoolOp" THEN 2 ELSE 0,
   targets |-> IF kind = "Assign" THEN <<[node |-> "Subscript", id |-> "x"]>> ELSE <<>>,
   value |-> StrConst,
   func |-> IF kind = "Call" THEN NameFunc("print") ELSE OtherFunc,
   keywords |-> <<>>]

BoolOp3 == [Blank("BoolOp") EXCEPT !.nvalues = 3]

(* -------------------------------- trees -------------------------------- *)
\* depth profiles of the pre-order listings of n nodes below the Module
Profiles(n) ==
  {d \in [1..n -> 1..n] :
     /\ n > 0 => d[1] = 1
     /\ \A i \in 2..n : d[i] <= d[i - 1] + 1}

\* index (in the tree, Module = 1) of the parent of listing position i
ParentOf(d, i) ==
  IF d[i] = 1 THEN 1
  ELSE 1 + CHOOSE j \in 1..(i - 1) :
             /\ d[j] = d[i] - 1
             /\ \A k \in (j + 1)..(i - 1) : d[k] >= d[i]

\* the tree of the nodes ns (a sequence of Blank-like nodes) with depths d;
\* the source is laid out with each node starting a line of its own, so
\* that the line of a record or of a finding names its node
MkTree(ns, d) ==
  <<Blank("Module")>> \o
  [i \in 1..Len(ns) |->
     [ns[i] EXCEPT !.parent = ParentOf(d, i), !.depth = d[i], !.lineno = i]]

\* child nodes in the order iter_child_nodes yields them
Children(tree, n) == Ascending({i \in 2..Len(tree) : tree[i].parent = n})

\* trees the parser can produce: statements lie in bodies, handlers in a
\* try, a boolean operation has no more children than operands, and an
\* assignment of a constant or a name to names has no node below it
WellFormed(tree) ==
  \A i \in 2..Len(tree) :
    LET nd == tree[i]
        p  == tree[nd.parent]
    IN /\ nd.kind \in StmtKinds => p.kind \in BlockKinds
       /\ nd.kind = "ExceptHandler" => p.kind \in {"Try", "TryStar"}
       /\ nd.kind = "BoolOp" => Len(Children(tree, i)) <= nd.nvalues
       /\ p.kind = "Assign" =>
            \/ p.value.node \notin {"Constant", "Name"}
            \/ \E k \in 1..Len(p.targets) : p.targets[k].node # "Name"

(* ---------------------------- MetricsVisitor --------------------------- *)
\* a walk that stays out of nested definitions
RECURSIVE WalkOwnBody(_, _)
WalkOwnBody(tree, todo) ==
  IF todo = <<>> THEN <<>>
  ELSE <<Head(todo)>>
       \o WalkOwnBody(tree,
            Tail(todo) \o Ascending({c \in Range(Children(tree, Head(todo))) :
                           tree[c].kind \notin {"FunctionDef", "AsyncFunctionDef"}}))

\* ast.walk(node): breadth-first, the node itself first
RECURSIVE Walk(_, _)
Walk(tree, todo) ==
  IF todo = <<>> THEN <<>>
  ELSE <<Head(todo)>> \o Walk(tree, Tail(todo) \o Children(tree, Head(todo)))

\* what one node of the walk adds to the complexity
Increment(nd) ==
  IF nd.kind \in {"If", "While", "For", "AsyncFor", "Try", "ExceptHandler",
                  "With", "AsyncWith"} THEN 1
  ELSE IF nd.kind = "BoolOp" THEN nd.nvalues - 1
  ELSE IF nd.kind = "IfExp" THEN 1
  ELSE 0

RECURSIVE ComplexityLoop(_, _, _)
ComplexityLoop(tree, walk, complexity) ==
  IF walk = <<>> THEN complexity
  ELSE ComplexityLoop(tree, Tail(walk), complexity + Increment(tree[Head(walk)]))

Complexity(tree, n) == ComplexityLoop(tree, Walk(tree, <<n>>), 1)

\* Python truth of an optional attribute: <<>> stands for None
Truthy(opt) == opt # <<>>

Params(a) ==
  Len(a.args) + Len(a.kwonlyargs)
  + (IF Truthy(a.vararg) THEN 1 ELSE 0)
  + (IF Truthy(a.kwarg) THEN 1 ELSE 0)

analyze_function(tree, n) ==
  [type |-> "function", name |-> tree[n].name,
   complexity |-> Complexity(tree, n), parameters |-> Params(tree[n].args),
   lineno |-> tree[n].lineno]

\* every child of a ClassDef that can be a FunctionDef lies in its body
ClassRecord(tree, n) ==
  LET methods == {c \in Range(Children(tree, n)) :
                    tree[c].kind \in {"FunctionDef", "AsyncFunctionDef"}}
  IN [type |-> "class", name |-> tree[n].name,
      methods |-> Cardinality(methods), lineno |-> tree[n].lineno]

(* ---------------------------- SecurityVisitor -------------------------- *)
\* Python's None where a string is expected (func_name, keyword.arg)
NoneStr == "<None>"

\* str.upper() and str.lower() on the identifiers of the model
Upper(id) ==
  CASE id \in {"SECRET_KEY", "secret_key"} -> "SECRET_KEY"
    [] id \in {"PASSWORD", "Password"} -> "PASSWORD"
    [] id \in {"TOKEN", "token"} -> "TOKEN"
    [] id \in {"csrf"} -> "CSRF"
    [] id \in {"CSRF_ENABLED", "csrf_enabled"} -> "CSRF_ENABLED"
    [] id \in {"x"} -> "X"

Lower(id) ==
  CASE id \in {"SECRET_KEY", "secret_key"} -> "secret_key"
    [] id \in {"PASSWORD", "Password"} -> "password"
    [] id \in {"TOKEN", "token"} -> "token"
    [] id \in {"csrf"} -> "csrf"
    [] id \in {"CSRF_ENABLED", "csrf_enabled"} -> "csrf_enabled"
    [] id \in {"x"} -> "x"

\* the tuple of the second check with SECRET_KEY added to it
SecretNamesWithSecretKey == {"SECRET_KEY", "PASSWORD", "API_KEY", "TOKEN", "AUTH_TOKEN",
                             "PRIVATE_KEY", "AWS_SECRET_KEY"}

SecretNames == {"PASSWORD", "API_KEY", "TOKEN", "AUTH_TOKEN", "PRIVATE_KEY",
                "AWS_SECRET_KEY"}
CsrfNames == {"csrf", "csrf_enabled", "wtf_csrf_enabled"}

\* the test without isinstance(value.value, str)
IsAnyConstant(v) == v.node = "Constant"

\* isinstance(value, ast.Constant) and isinstance(value.value, str)
IsStrConstant(v) == v.node = "Constant" /\ v.type = "str"

\* value.value == b for a bool b: Python compares numbers by value, so the
\* int, float and complex of the same value are equal to the bool
PyEqBool(v, b) ==
  /\ v.type \in {"bool", "int", "float", "complex"}
  /\ v.num = (IF b THEN 1 ELSE 0)

Finding(issue, name, lineno, message) ==
  [type |-> "security", issue |-> issue, name |-> name, lineno |-> lineno,
   message |-> message]

\* the findings of one target of an assignment, in the order of the checks
TargetFindings(target, value, lineno) ==
  IF target.node # "Name" THEN <<>>
  ELSE
    LET name == target.id IN
    (IF name = "SECRET_KEY" /\ IsStrConstant(value)
     THEN <<Finding("hardcoded_secret", "SECRET_KEY", lineno,
              <<"Hardcoded SECRET_KEY detected. Use environment variables instead.">>)>>
     ELSE <<>>)
    \o
    (IF Upper(name) \in SecretNames /\ IsStrConstant(value)
     THEN <<Finding("hardcoded_secret", name, lineno,
              <<"Hardcoded ", name, " detected. Use environment variables instead.">>)>>
     ELSE <<>>)
    \o
    (IF Lower(name) \in CsrfNames /\ value.node = "Constant" /\ PyEqBool(value, FALSE)
     THEN <<Finding("csrf_disabled", name, lineno,
              <<"CSRF protection is disabled. This is a security vulnerability.">>)>>
     ELSE <<>>)

RECURSIVE AssignLoop(_, _, _)
AssignLoop(targets, value, lineno) ==
  IF targets = <<>> THEN <<>>
  ELSE TargetFindings(Head(targets), value, lineno)
       \o AssignLoop(Tail(targets), value, lineno)

AssignFindings(nd) == AssignLoop(nd.targets, nd.value, nd.lineno)

\* the callee's name taken from a bare name only
FuncNameBare(func) ==
  IF func.node = "Name" THEN func.id ELSE NoneStr

FuncName(func) ==
  IF func.node \in {"Name", "Attribute"} THEN func.id ELSE NoneStr

RECURSIVE KeywordLoop(_, _, _)
KeywordLoop(keywords, func_name, lineno) ==
  IF keywords = <<>> THEN <<>>
  ELSE LET keyword == Head(keywords) IN
       (IF /\ keyword.arg = "shell"
           /\ keyword.value.node = "Constant"
           /\ PyEqBool(keyword.value, TRUE)
        THEN <<Finding("command_injection", func_name, lineno,
                 <<"shell=True in subprocess can lead to command injection.">>)>>
        ELSE <<>>)
       \o KeywordLoop(Tail(keywords), func_name, lineno)

CallFindings(nd) ==
  LET func_name == FuncName(nd.func) IN
  (IF func_name \in {"eval", "exec"}
   THEN <<Finding("code_injection", func_name, nd.lineno,
            <<"Use of ", func_name,
              "() detected. This can lead to code injection vulnerabilities.">>)>>
   ELSE <<>>)
  \o
  (IF /\ func_name \in {"loads", "load"}
      /\ nd.func.node = "Attribute"
      /\ nd.func.vnode = "Name"
      /\ nd.func.vid = "pickle"
   THEN <<Finding("insecure_deserialization", "pickle", nd.lineno,
            <<"Pickle deserialization is unsafe. Use json instead for untrusted data.">>)>>
   ELSE <<>>)
  \o
  (IF func_name \in {"run", "call", "Popen", "check_output", "check_call"}
   THEN KeywordLoop(nd.keywords, func_name, nd.lineno)
   ELSE <<>>)

(* ----------------------------- Textual Scanner ------------------------- *)
\* A source text is a sequence of tokens: single characters, the words of
\* the patterns ("execute", "cursor", "format") as one token each, and "x"
\* for a stretch of characters that occur in no pattern.
NL == "\n"
Whitespace == {" ", "\t"}
Tokens == {"execute", "EXECUTE", "cursor", "format", ".", "(", ")", " ", "\t",
           "\"", "'", "f", "F", "%", "s", "S", "+", "#", "x"}

\* re.IGNORECASE: both sides are compared in lower case
Fold(c) ==
  CASE c = "EXECUTE" -> "execute"
    [] c = "F" -> "f"
    [] c = "S" -> "s"
    [] OTHER -> c

\* pattern elements: a literal, a character class, or a starred class
Lit(c) == [op |-> "lit", set |-> {c}]
Class(S) == [op |-> "class", set |-> S]
Star(S) == [op |-> "star", set |-> S]
Quote == Class({"\"", "'"})
WsStar == Star(Whitespace)
\* "." matches every character but the newline
DotStar == Star(Tokens)
ExecuteParen == <<Lit("execute"), WsStar, Lit("("), WsStar>>

sql_patterns ==
  << [pattern |-> ExecuteParen \o <<Quote, DotStar, Lit("%"), Lit("s")>>,
      desc |-> "SQL string formatting with %s"],
     [pattern |-> ExecuteParen \o <<Lit("f"), Quote>>,
      desc |-> "SQL f-string"],
     [pattern |-> ExecuteParen \o <<Quote, DotStar, Lit("+")>>,
      desc |-> "SQL string concatenation"],
     [pattern |-> <<Lit("cursor"), Lit(".")>> \o ExecuteParen
                  \o <<Quote, DotStar, Lit("."), Lit("format"), WsStar, Lit("(")>>,
      desc |-> "SQL .format()"] >>

\* the elements k.. of pat match a stretch of line that starts at position i
RECURSIVE MatchAt(_, _, _, _)
MatchAt(pat, k, line, i) ==
  IF k > Len(pat) THEN TRUE
  ELSE LET e == pat[k]
           here == i <= Len(line) /\ Fold(line[i]) \in e.set
       IN IF e.op = "star"
          THEN MatchAt(pat, k + 1, line, i) \/ (here /\ MatchAt(pat, k, line, i + 1))
          ELSE here /\ MatchAt(pat, k + 1, line, i + 1)

\* the positions of line where a match of pat starts
MatchStarts(pat, line) == {i \in 1..(Len(line) + 1) : MatchAt(pat, 1, line, i)}

\* re.search(pattern, line, re.IGNORECASE) is not None
Search(pat, line) == MatchStarts(pat, line) # {}

\* content.split('\n')
RECURSIVE Split(_)
Split(content) ==
  IF NL \notin Range(content) THEN <<content>>
  ELSE LET i == CHOOSE j \in 1..Len(content) :
                  content[j] = NL /\ \A k \in 1..(j - 1) : content[k] # NL
       IN <<SubSeq(content, 1, i - 1)>> \o Split(SubSeq(content, i + 1, Len(content)))

\* the inner loop with one finding for each match (finditer for search)
RECURSIVE LineLoopPerMatch(_, _, _)
LineLoopPerMatch(p, ls, i) ==
  IF i > Len(ls) THEN <<>>
  ELSE [j \in 1..Cardinality(MatchStarts(p.pattern, ls[i])) |->
          Finding("sql_injection", p.desc, i,
            <<"Potential SQL injection: ", p.desc, ". Use parameterized queries.">>)]
       \o LineLoopPerMatch(p, ls, i + 1)

\* the inner loop: the lines from number i on, against one pattern
RECURSIVE LineLoop(_, _, _)
LineLoop(p, ls, i) ==
  IF i > Len(ls) THEN <<>>
  ELSE (IF Search(p.pattern, ls[i])
        THEN <<Finding("sql_injection", p.desc, i,
                 <<"Potential SQL injection: ", p.desc, ". Use parameterized queries.">>)>>
        ELSE <<>>)
       \o LineLoop(p, ls, i + 1)

\* the outer loop: the patterns from number k on
RECURSIVE PatternLoop(_, _)
PatternLoop(k, ls) ==
  IF k > Len(sql_patterns) THEN <<>>
  ELSE LineLoop(sql_patterns[k], ls, 1) \o PatternLoop(k + 1, ls)

SqlFindings(ls) == PatternLoop(1, ls)

(* -------------------------------- inputs ------------------------------- *)
\* An expression directly in a body stands for its expression statement.
NarrowShapes == {Blank("FunctionDef"), Blank("ClassDef"), Blank("If"), BoolOp3,
                 [Blank("Call") EXCEPT !.func = NameFunc("eval")],
                 [Blank("Assign") EXCEPT !.targets = <<[node |-> "Name", id |-> "PASSWORD"]>>]}
WideShapes == {Blank(k) : k \in (StmtKinds \cup ExprKinds)} \cup {BoolOp3}
ChainShapes == {Blank("If"), Blank("FunctionDef"),
                [Blank("Call") EXCEPT !.func = NameFunc("eval")]}

\* one node below the other, deep enough to exhaust the recursion limit
ChainDepth == (RecursionLimit \div 2) + 1

\* parameter lists
ParamLists == {[i \in 1..k |-> "p"] : k \in 0..MaxParams}
Optional(x) == {<<>>, <<x>>}
ArgSpecs == [posonlyargs : ParamLists, args : ParamLists, kwonlyargs : ParamLists,
             vararg : Optional("args"), kwarg : Optional("kw")]
DefNodes == {[Blank(k) EXCEPT !.args = a] :
               k \in {"FunctionDef", "AsyncFunctionDef"}, a \in ArgSpecs}

\* assignments
TargetIds == {"SECRET_KEY", "secret_key", "PASSWORD", "Password", "token", "csrf",
              "CSRF_ENABLED", "x"}
Targets == {[node |-> "Name", id |-> id] : id \in TargetIds}
           \cup {[node |-> "Attribute", id |-> "PASSWORD"],
                 [node |-> "Subscript", id |-> "csrf"]}
Constants == {StrConst,
              [node |-> "Constant", type |-> "bytes", num |-> 0],
              [node |-> "Constant", type |-> "bool", num |-> 0],
              [node |-> "Constant", type |-> "bool", num |-> 1],
              [node |-> "Constant", type |-> "int", num |-> 0],
              [node |-> "Constant", type |-> "int", num |-> 1],
              [node |-> "Constant", type |-> "float", num |-> 0],
              [node |-> "Constant", type |-> "NoneType", num |-> 0]}
CallValue == [node |-> "Call", type |-> "", num |-> 0]
NameValue == [node |-> "Name", type |-> "", num |-> 0]
Values == Constants \cup {CallValue, NameValue, [node |-> "JoinedStr", type |-> "", num |-> 0]}
AssignNodes == {[Blank("Assign") EXCEPT !.targets = ts, !.value = v] :
                  ts \in (SeqsUpTo(Targets, MaxTargets) \ {<<>>}), v \in Values}

\* calls
Funcs == {NameFunc(id) : id \in {"eval", "exec", "print", "loads", "run"}}
         \cup {AttrFunc(r[1], r[2], a) :
                 r \in {<<"Name", "pickle">>, <<"Name", "subprocess">>, <<"Other", "">>},
                 a \in {"eval", "load", "run", "Popen", "print"}}
         \cup {OtherFunc}
Keywords == {[arg |-> "shell", value |-> v] :
               v \in {[node |-> "Constant", type |-> "bool", num |-> 1],
                      [node |-> "Constant", type |-> "bool", num |-> 0],
                      [node |-> "Constant", type |-> "int", num |-> 1],
                      NameValue}}
            \cup {[arg |-> "check", value |-> [node |-> "Constant", type |-> "bool", num |-> 1]],
                  [arg |-> NoneStr, value |-> NameValue]}
CallNodes == {[Blank("Call") EXCEPT !.func = f, !.keywords = ks] :
                f \in Funcs, ks \in SeqsUpTo(Keywords, MaxKeywords)}

\* the tree of one statement; an assignment whose value is a call has
\* that call below it
StatementTree(nd) ==
  IF nd.kind = "Assign" /\ nd.value.node = "Call"
  THEN MkTree(<<nd, Blank("Call")>>, <<1, 2>>)
  ELSE MkTree(<<nd>>, <<1>>)

\* source lines
LineSamples ==
  { <<>>,
    <<"x">>,
    <<"execute", "(", "x", "\"", "%", "s">>,
    <<"cursor", ".", "execute", "(", "\"", "%", "s", "\"", ")">>,
    <<"EXECUTE", " ", "(", "\t", "F", "'", "x">>,
    <<"execute", "(", "\"", "x", "+", "%", "S">>,
    <<"cursor", ".", "execute", "(", "'", ".", "format", " ", "(">>,
    <<"execute", "(", "\"", "%", "s", ")", "execute", "(", "\"", "%", "s">>,
    <<"cursor", ".", "execute", "(", "\"", "%", "s", "+", ".", "format", "(">> }

RECURSIVE Join(_)
Join(ls) ==
  IF Len(ls) = 1 THEN ls[1] ELSE ls[1] \o <<NL>> \o Join(Tail(ls))

\* a source text of the given lines
Source(ls) == [content |-> Join(ls), source_lines |-> ls]

\* texts of up to MaxLines lines
Sources(samples) == {Source(ls) : ls \in (SeqsUpTo(samples, MaxLines) \ {<<>>})}

\* the same lines as comments: such a text parses to an empty module
CommentSamples == {IF l = <<>> THEN l ELSE <<"#">> \o l : l \in LineSamples}

\* the text of a tree: one line for each node, and a last line of comment
TreeSource(t) ==
  Source([i \in 1..(Len(t) - 1) |-> <<"x">>]
         \o << <<"#", "execute", "(", "\"", "%", "s">> >>)

\* what ast.parse can raise, with str() of the exception; CPython 3.11
\* raises MemoryError(), whose str() is empty, for '-' * 100000 + '1'
ParseErrors ==
  {[exc |-> "SyntaxError", message |-> "invalid syntax (<unknown>, line 1)"],
   [exc |-> "ValueError", message |-> "source code string cannot contain null bytes"],
   [exc |-> "RecursionError",
    message |-> "maximum recursion depth exceeded during ast construction"],
   [exc |-> "MemoryError", message |-> ""]}
NoError == [exc |-> "", message |-> ""]

\* source_lines is the text as its author wrote it, line by line; the
\* program reads content only
Parsed(src, t) ==
  [content |-> src.content, source_lines |-> src.source_lines, tree |-> t,
   error |-> NoError]
Unparsed(src, e) ==
  [content |-> src.content, source_lines |-> src.source_lines, tree |-> <<>>,
   error |-> e]

\* a parenthesis is left open on some line
Unclosed(ls) ==
  \E i \in 1..Len(ls) :
    Cardinality({j \in 1..Len(ls[i]) : ls[i][j] = "("})
      > Cardinality({j \in 1..Len(ls[i]) : ls[i][j] = ")"})

\* the failures a text can give: a syntax error for an open parenthesis,
\* the others for characters the model leaves to "x" (a null byte, a run
\* of operators too deep for the parser)
CanRaise(src, e) ==
  IF e.exc = "SyntaxError" THEN Unclosed(src.source_lines)
  ELSE \E i \in 1..Len(src.source_lines) : "x" \in Range(src.source_lines[i])

\* a well-formed tree of n nodes of the given shapes
IsTreeInput(in, shapes, n) ==
  \E ns \in [1..n -> shapes] : \E d \in Profiles(n) :
    /\ WellFormed(MkTree(ns, d))
    /\ in = Parsed(TreeSource(MkTree(ns, d)), MkTree(ns, d))

\* a chain of n nodes
IsChainInput(in, n) ==
  \E ns \in [1..n -> ChainShapes] :
    LET t == MkTree(ns, [i \in 1..n |-> i])
    IN WellFormed(t) /\ in = Parsed(TreeSource(t), t)

IsStatementInput(in, nd) == in = Parsed(TreeSource(StatementTree(nd)), StatementTree(nd))

\* the inputs: small trees of a few shapes, smaller trees of every shape,
\* chains that exhaust the recursion limit, single statements with every
\* combination of their attributes, texts of comment lines (an empty
\* module), and the failures of the parser
IsInput(in) ==
  \/ \E n \in 0..MaxNodes : IsTreeInput(in, NarrowShapes, n)
  \/ \E n \in 0..MaxWideNodes : IsTreeInput(in, WideShapes, n)
  \/ \E n \in (MaxNodes + 1)..ChainDepth : IsChainInput(in, n)
  \/ \E nd \in DefNodes : IsStatementInput(in, nd)
  \/ \E nd \in AssignNodes : IsStatementInput(in, nd)
  \/ \E nd \in CallNodes : IsStatementInput(in, nd)
  \/ \E src \in Sources(CommentSamples) : in = Parsed(src, MkTree(<<>>, <<>>))
  \/ \E src \in Sources(LineSamples) : \E e \in ParseErrors :
       CanRaise(src, e) /\ in = Unparsed(src, e)

(* ----------------------------- analyze_code ---------------------------- *)
VARIABLES
  input,    \* the source text and what ast.parse makes of it
  pc,       \* position in analyze_code
  tree,     \* the local tree
  stack,    \* nodes whose visit() is pending, the next one first
  metrics,  \* visitor.metrics
  lines,    \* security_visitor.lines
  issues,   \* security_visitor.issues
  result    \* the returned dict (no key before the return)

vars == <<input, pc, tree, stack, metrics, lines, issues, result>>

NoResult == [k \in {} |-> 0]

Init ==
  /\ IsInput(input)
  /\ pc = "parse"
  /\ tree = <<>>
  /\ stack = <<>>
  /\ metrics = <<>>
  /\ lines = <<>>
  /\ issues = <<>>
  /\ result = NoResult

\* the kinds a visitor defines a visit_<Kind> method for
MetricsHandled == {"FunctionDef", "AsyncFunctionDef", "ClassDef"}
SecurityHandled == {"Assign", "Call"}

\* Python frames in use when visit(n) is entered: visit and generic_visit
\* for each ancestor, and one more where the ancestor is handled by a
\* visit_<Kind> method, which calls generic_visit in its turn
RECURSIVE Frames(_, _, _)
Frames(t, n, handled) ==
  IF n = 1 THEN 1
  ELSE Frames(t, t[n].parent, handled)
       + (IF t[t[n].parent].kind \in handled THEN 3 ELSE 2)

Failure(message) == [error |-> message]

\* the classes below Exception that the parser and the visitors raise
ExceptionClasses == {"SyntaxError", "ValueError", "RecursionError", "MemoryError"}

\* the handler as "except SyntaxError" would make it
ExceptSyntaxErrorOnly(exc, message) ==
  IF exc = "SyntaxError"
  THEN [pc |-> "done", result |-> Failure(message)]
  ELSE [pc |-> "raised", result |-> NoResult]

\* except Exception as e: return {"error": str(e)}
\* (an exception the clause does not catch leaves analyze_code: "raised")
Except(exc, message) ==
  IF exc \in ExceptionClasses
  THEN [pc |-> "done", result |-> Failure(message)]
  ELSE [pc |-> "raised", result |-> NoResult]

Success(ms, sec) == [metrics |-> ms, security |-> sec]

\* tree = ast.parse(content); visitor = MetricsVisitor(); visitor.visit(tree)
ParseOk ==
  /\ pc = "parse"
  /\ input.error = NoError
  /\ tree' = input.tree
  /\ metrics' = <<>>
  /\ stack' = <<1>>
  /\ pc' = "metrics"
  /\ UNCHANGED <<input, lines, issues, result>>

\* ast.parse raises: the handler returns the error report
ParseFailure ==
  /\ pc = "parse"
  /\ input.error # NoError
  /\ result' = Except(input.error.exc, input.error.message).result
  /\ pc' = Except(input.error.exc, input.error.message).pc
  /\ UNCHANGED <<input, tree, stack, metrics, lines, issues>>

\* generic_visit(node): visit every child, in order
GenericVisit == stack' = Children(tree, Head(stack)) \o Tail(stack)

Visiting(phase, handled) ==
  /\ pc = phase
  /\ stack # <<>>
  /\ Frames(tree, Head(stack), handled) <= RecursionLimit

\* a visit() deeper than the recursion limit raises RecursionError
TooDeep(phase, handled) ==
  /\ pc = phase
  /\ stack # <<>>
  /\ Frames(tree, Head(stack), handled) > RecursionLimit

\* visitor.visit(tree) raises: the handler returns the error report
MetricsRecursionError ==
  /\ TooDeep("metrics", MetricsHandled)
  /\ result' = Except("RecursionError", "maximum recursion depth exceeded").result
  /\ pc' = Except("RecursionError", "maximum recursion depth exceeded").pc
  /\ UNCHANGED <<input, tree, stack, metrics, lines, issues>>

\* security_visitor.visit(tree) raises: the handler returns the error report
SecurityRecursionError ==
  /\ TooDeep("security", SecurityHandled)
  /\ result' = Except("RecursionError", "maximum recursion depth exceeded").result
  /\ pc' = Except("RecursionError", "maximum recursion depth exceeded").pc
  /\ UNCHANGED <<input, tree, stack, metrics, lines, issues>>

\* visit_FunctionDef without its self.generic_visit(node)
visit_FunctionDef_NoDescend ==
  /\ Visiting("metrics", MetricsHandled)
  /\ tree[Head(stack)].kind = "FunctionDef"
  /\ metrics' = Append(metrics, analyze_function(tree, Head(stack)))
  /\ stack' = Tail(stack)
  /\ UNCHANGED <<input, pc, tree, lines, issues, result>>

visit_FunctionDef ==
  /\ Visiting("metrics", MetricsHandled)
  /\ tree[Head(stack)].kind = "FunctionDef"
  /\ metrics' = Append(metrics, analyze_function(tree, Head(stack)))
  /\ GenericVisit
  /\ UNCHANGED <<input, pc, tree, lines, issues, result>>

visit_AsyncFunctionDef ==
  /\ Visiting("metrics", MetricsHandled)
  /\ tree[Head(stack)].kind = "AsyncFunctionDef"
  /\ metrics' = Append(metrics, analyze_function(tree, Head(stack)))
  /\ GenericVisit
  /\ UNCHANGED <<input, pc, tree, lines, issues, result>>

visit_ClassDef ==
  /\ Visiting("metrics", MetricsHandled)
  /\ tree[Head(stack)].kind = "ClassDef"
  /\ metrics' = Append(metrics, ClassRecord(tree, Head(stack)))
  /\ GenericVisit
  /\ UNCHANGED <<input, pc, tree, lines, issues, result>>

\* a node kind the MetricsVisitor has no method for
MetricsGenericVisit ==
  /\ Visiting("metrics", MetricsHandled)
  /\ tree[Head(stack)].kind \notin MetricsHandled
  /\ GenericVisit
  /\ UNCHANGED <<input, pc, tree, metrics, lines, issues, result>>

\* security_visitor = SecurityVisitor(content); security_visitor.visit(tree)
SecurityStart ==
  /\ pc = "metrics"
  /\ stack = <<>>
  /\ issues' = <<>>
  /\ lines' = Split(input.content)
  /\ stack' = <<1>>
  /\ pc' = "security"
  /\ UNCHANGED <<input, tree, metrics, result>>

visit_Assign ==
  /\ Visiting("security", SecurityHandled)
  /\ tree[Head(stack)].kind = "Assign"
  /\ issues' = issues \o AssignFindings(tree[Head(stack)])
  /\ GenericVisit
  /\ UNCHANGED <<input, pc, tree, metrics, lines, result>>

visit_Call ==
  /\ Visiting("security", SecurityHandled)
  /\ tree[Head(stack)].kind = "Call"
  /\ issues' = issues \o CallFindings(tree[Head(stack)])
  /\ GenericVisit
  /\ UNCHANGED <<input, pc, tree, metrics, lines, result>>

\* a node kind the SecurityVisitor has no method for
SecurityGenericVisit ==
  /\ Visiting("security", SecurityHandled)
  /\ tree[Head(stack)].kind \notin SecurityHandled
  /\ GenericVisit
  /\ UNCHANGED <<input, pc, tree, metrics, lines, issues, result>>

check_sql_injection ==
  /\ pc = "security"
  /\ stack = <<>>
  /\ issues' = issues \o SqlFindings(lines)
  /\ pc' = "return"
  /\ UNCHANGED <<input, tree, stack, metrics, lines, result>>

Return ==
  /\ pc = "return"
  /\ result' = Success(metrics, issues)
  /\ pc' = "done"
  /\ UNCHANGED <<input, tree, stack, metrics, lines, issues>>

Next ==
  \/ ParseOk
  \/ ParseFailure
  \/ visit_FunctionDef
  \/ visit_AsyncFunctionDef
  \/ visit_ClassDef
  \/ MetricsGenericVisit
  \/ MetricsRecursionError
  \/ SecurityStart
  \/ visit_Assign
  \/ visit_Call
  \/ SecurityGenericVisit
  \/ SecurityRecursionError
  \/ check_sql_injection
  \/ Return

Spec == Init /\ [][Next]_vars

TypeOK ==
  /\ pc \in {"parse", "metrics", "security", "return", "done", "raised"}
  /\ DOMAIN result \in {{}, {"error"}, {"metrics", "security"}}

(* ------------------------- properties: vocabulary ---------------------- *)
Returned == pc = "done" /\ DOMAIN result = {"metrics", "security"}

Failed == pc = "done" /\ DOMAIN result = {"error"}

DefKinds == {"FunctionDef", "AsyncFunctionDef"}

\* a is a proper ancestor of n
RECURSIVE IsAncestor(_, _, _)
IsAncestor(t, a, n) ==
  n # 1 /\ (t[n].parent = a \/ IsAncestor(t, a, t[n].parent))

Subtree(t, n) == {m \in 1..Len(t) : m = n \/ IsAncestor(t, n, m)}

\* definitions and classes each start a line of their own, so that a
\* metric record names its node by its line
NodeOfLine(l) == CHOOSE n \in 2..Len(tree) : tree[n].lineno = l

(* C1: analyze_code returns exactly one of the two shapes, {metrics,       *)
(* security} or {error}: never both, never neither, no result before the   *)
(* return, and no exception leaves it.                                     *)
C1_ExactlyOneShape ==
  /\ pc # "raised"
  /\ pc = "done" => DOMAIN result \in {{"metrics", "security"}, {"error"}}
  /\ pc # "done" => DOMAIN result = {}

\* the security walk fails after both visitors have collected something:
\* the report is the error alone
C1_Witness ==
  /\ Failed
  /\ metrics # <<>>
  /\ issues # <<>>

(* C2: when parsing fails, the report is the Failure with the parser's     *)
(* non-empty message, and no visitor and no scan has run: no metric        *)
(* record and no finding exists.                                           *)
C2_ParseFailure ==
  (pc = "done" /\ input.error # NoError) =>
    /\ DOMAIN result = {"error"}
    /\ result.error = input.error.message
    /\ result.error # ""
    /\ metrics = <<>> /\ issues = <<>> /\ lines = <<>>

\* C2 without the non-empty message: what the code does keep
ParseFailureRunsNothing ==
  (pc = "done" /\ input.error # NoError) =>
    /\ result = Failure(input.error.message)
    /\ metrics = <<>> /\ issues = <<>> /\ lines = <<>>

(* C3: the recorded complexity of a definition is 1, plus 1 for each if,   *)
(* while, for, async for, try, except handler, with, async with and        *)
(* conditional expression, plus N-1 for each boolean operation of N        *)
(* operands, over the whole subtree of the definition, nested definitions  *)
(* included; it is at least 1.                                             *)
BranchKinds == {"If", "While", "For", "AsyncFor", "Try", "ExceptHandler", "With",
                "AsyncWith", "IfExp"}

ExpectedComplexity(t, n) ==
  1 + Cardinality({m \in Subtree(t, n) : t[m].kind \in BranchKinds})
    + Cardinality(UNION {{m} \X (1..(t[m].nvalues - 1)) :
                           m \in {b \in Subtree(t, n) : t[b].kind = "BoolOp"}})

C4_Parameters ==
  \A i \in 1..Len(metrics) :
    metrics[i].type = "function" =>
      LET a == tree[NodeOfLine(metrics[i].lineno)].args
      IN metrics[i].parameters =
           Len(a.posonlyargs) + Len(a.args) + Len(a.kwonlyargs)
           + (IF a.vararg # <<>> THEN 1 ELSE 0) + (IF a.kwarg # <<>> THEN 1 ELSE 0)

(* ------------------ properties of the security findings ---------------- *)
\* the findings of one kind that carry the line of node n
FindingsOf(issue, n) ==
  {i \in 1..Len(result.security) :
     /\ result.security[i].issue = issue
     /\ result.security[i].lineno = tree[n].lineno}

Nodes == 2..Len(tree)

IsStringLiteral(v) == v.node = "Constant" /\ v.type = "str"

NameTargets(nd) == {k \in 1..Len(nd.targets) : nd.targets[k].node = "Name"}

(* C5: an assignment yields a hardcoded_secret finding, on its line,       *)
(* exactly when one of its targets is a simple name that is SECRET_KEY or  *)
(* is, case ignored, one of the six secret names, and the value is a       *)
(* string literal; nothing else yields one.                                *)
SecretTarget(t) ==
  /\ t.node = "Name"
  /\ \/ t.id = "SECRET_KEY"
     \/ Lower(t.id) \in {"password", "api_key", "token", "auth_token", "private_key",
                         "aws_secret_key"}

C5_HardcodedSecret ==
  Returned =>
    \A n \in Nodes :
      FindingsOf("hardcoded_secret", n) # {} <=>
        /\ tree[n].kind = "Assign"
        /\ \E k \in 1..Len(tree[n].targets) : SecretTarget(tree[n].targets[k])
        /\ IsStringLiteral(tree[n].value)

\* self.PASSWORD = Password = "..." is reported, for its second target
C5_Witness ==
  /\ Returned
  /\ \E n \in Nodes :
       /\ tree[n].kind = "Assign"
       /\ tree[n].targets = <<[node |-> "Attribute", id |-> "PASSWORD"],
                              [node |-> "Name", id |-> "Password"]>>
       /\ Cardinality(FindingsOf("hardcoded_secret", n)) = 1

(* C6: a call yields a code_injection finding exactly when its callee is   *)
(* the bare name eval or exec; an attribute callee such as obj.eval        *)
(* yields none.                                                            *)
C6_BareNameOnly ==
  Returned =>
    \A n \in Nodes :
      FindingsOf("code_injection", n) # {} <=>
        /\ tree[n].kind = "Call"
        /\ tree[n].func.node = "Name"
        /\ tree[n].func.id \in {"eval", "exec"}

(* C6 as amended: a call yields a code_injection finding exactly when its  *)
(* callee is the bare name eval or exec, or an attribute access whose      *)
(* attribute is eval or exec, whatever the receiver.                       *)
C6_NameOrAttribute ==
  Returned =>
    \A n \in Nodes :
      FindingsOf("code_injection", n) # {} <=>
        /\ tree[n].kind = "Call"
        /\ tree[n].func.node \in {"Name", "Attribute"}
        /\ tree[n].func.id \in {"eval", "exec"}

\* obj.eval(...) is reported
C6_Witness ==
  /\ Returned
  /\ \E n \in Nodes :
       /\ tree[n].kind = "Call"
       /\ tree[n].func.node = "Attribute"
       /\ tree[n].func.vnode = "Other"
       /\ FindingsOf("code_injection", n) # {}

(* C7: an assignment yields a csrf_disabled finding exactly when a target  *)
(* is a simple name that is, case ignored, csrf, csrf_enabled or           *)
(* wtf_csrf_enabled, and the value is the literal False; the values True,  *)
(* 0, 0.0, a string, None or an expression yield none.                     *)
C7_CsrfLiteralFalse ==
  Returned =>
    \A n \in Nodes :
      FindingsOf("csrf_disabled", n) # {} <=>
        /\ tree[n].kind = "Assign"
        /\ \E k \in NameTargets(tree[n]) : Lower(tree[n].targets[k].id) \in CsrfNames
        /\ tree[n].value = [node |-> "Constant", type |-> "bool", num |-> 0]

(* C8: a structural rule yields at most one finding for one node: for any  *)
(* assignment (chained ones included) and any call, the findings of one    *)
(* kind on that node number 0 or 1.                                        *)
StructuralIssues == {"hardcoded_secret", "csrf_disabled", "code_injection",
                     "insecure_deserialization", "command_injection"}

C8_AtMostOncePerNode ==
  Returned =>
    \A n \in Nodes : \A issue \in StructuralIssues :
      Cardinality(FindingsOf(issue, n)) <= 1

(* C8 as amended: a structural rule yields at most one finding for each    *)
(* simple-name target of an assignment (each finding named after its       *)
(* target) and for each keyword named shell of a call; code_injection and  *)
(* insecure_deserialization yield at most one finding for a call; a node   *)
(* that is neither an assignment nor a call yields none.                   *)
C8_AtMostOncePerTarget ==
  Returned =>
    \A n \in Nodes : \A issue \in StructuralIssues :
      LET nd == tree[n]
          found == FindingsOf(issue, n)
      IN CASE nd.kind = "Assign" ->
                /\ issue \notin {"hardcoded_secret", "csrf_disabled"} => found = {}
                /\ \A id \in {result.security[i].name : i \in found} :
                     Cardinality({i \in found : result.security[i].name = id})
                       <= Cardinality({k \in NameTargets(nd) : nd.targets[k].id = id})
           [] nd.kind = "Call" ->
                IF issue = "command_injection"
                THEN Cardinality(found)
                       <= Cardinality({k \in 1..Len(nd.keywords) :
                                         nd.keywords[k].arg = "shell"})
                ELSE /\ issue \in {"hardcoded_secret", "csrf_disabled"} => found = {}
                     /\ Cardinality(found) <= 1
           [] OTHER -> found = {}

\* a chained assignment reported once for each of its two targets
C8_Witness ==
  /\ Returned
  /\ \E n \in Nodes :
       /\ tree[n].kind = "Assign"
       /\ Len(tree[n].targets) = 2
       /\ Cardinality(FindingsOf("hardcoded_secret", n)) = 2

(* ------------------------ properties of the walk ----------------------- *)
RecordedKinds == DefKinds \cup {"ClassDef"}

Recorded == {n \in Nodes : tree[n].kind \in RecordedKinds}

RecordsOf(n) == {i \in 1..Len(metrics) : metrics[i].lineno = tree[n].lineno}

\* the walk of the MetricsVisitor has ended
MetricsWalked == pc \in {"security", "return"} \/ Returned

PreOrder ==
  MetricsWalked =>
    /\ \A n \in Recorded :
         /\ Cardinality(RecordsOf(n)) = 1
         /\ \A i \in RecordsOf(n) :
              metrics[i].type = (IF tree[n].kind = "ClassDef" THEN "class" ELSE "function")
    /\ Len(metrics) = Cardinality(Recorded)
    /\ \A d, e \in Recorded :
         IsAncestor(tree, d, e) =>
           \A i \in RecordsOf(d), j \in RecordsOf(e) : i < j

(* C9: the metrics list only grows during the walk, every function or      *)
(* class definition of the tree (at any depth, also inside an if) has      *)
(* exactly one record once the walk has ended, and the record of a         *)
(* definition precedes the record of every definition nested in it.        *)
C9_AppendOnlyPreOrder ==
  /\ [][IsPrefix(metrics, metrics')]_vars
  /\ []PreOrder

\* def: if: def, both recorded, the outer first
C9_Witness ==
  /\ Returned
  /\ \E d, c, e \in Nodes :
       /\ tree[d].kind = "FunctionDef" /\ tree[c].kind = "If"
       /\ tree[e].kind = "FunctionDef"
       /\ tree[c].parent = d /\ tree[e].parent = c
       /\ \E i, j \in 1..Len(result.metrics) :
            /\ i < j
            /\ result.metrics[i].lineno = tree[d].lineno
            /\ result.metrics[j].lineno = tree[e].lineno

(* -------------------- properties of the textual scan ------------------- *)
SqlFindingsOf(k, i) ==
  {j \in 1..Len(result.security) :
     /\ result.security[j].issue = "sql_injection"
     /\ result.security[j].name = sql_patterns[k].desc
     /\ result.security[j].lineno = i}

(* C10: for each of the four patterns and each source line there is        *)
(* exactly one sql_injection finding, with the 1-based number of the line, *)
(* if the pattern matches the line at least once, and none otherwise.      *)
C10_OnePerPatternAndLine ==
  Returned =>
    /\ \A k \in 1..Len(sql_patterns) : \A i \in 1..Len(input.source_lines) :
         Cardinality(SqlFindingsOf(k, i)) =
           (IF Search(sql_patterns[k].pattern, input.source_lines[i]) THEN 1 ELSE 0)
    /\ \A j \in 1..Len(result.security) :
         result.security[j].issue = "sql_injection" =>
           \E k \in 1..Len(sql_patterns) : \E i \in 1..Len(input.source_lines) :
             j \in SqlFindingsOf(k, i)

\* line 1 matches three patterns and gets three findings; line 2 matches
\* the first pattern twice and gets one
C10_Witness ==
  /\ Returned
  /\ Len(input.source_lines) = 2
  /\ Cardinality({k \in 1..Len(sql_patterns) : SqlFindingsOf(k, 1) # {}}) = 3
  /\ Cardinality(MatchStarts(sql_patterns[1].pattern, input.source_lines[2])) = 2
  /\ Cardinality(SqlFindingsOf(1, 2)) = 1
  /\ Cardinality({j \in 1..Len(result.security) :
                    result.security[j].issue = "sql_injection"}) = 4

====
